---- MODULE Spec2Model ----
(***************************************************************************)
(* A model of pdffitx's recipe construction (modeling/creating.py,         *)
(* modeling/adding.py, modeling/fitfuncs.py) and staged refinement         *)
(* (modeling/main.py: optimize, modeling/fitfuncs.py: fit).                *)
(*                                                                         *)
(* Strings are sequences of tokens.  A token is an atomic piece of text:   *)
(* either a run of letters and digits ("Ni", "scale", "0") or one single   *)
(* character that is not a letter or digit ("_", "+", "-").                *)
(* Values are counted in hundredths (0.05 is 5).                           *)
(***************************************************************************)
EXTENDS Integers, Sequences, FiniteSets, TLC

VARIABLES
    recipe,   \* the FitRecipe: variables, values, bounds, fixed flags, tags, constraints
    phase,    \* life cycle of the recipe: "none", "created", "initialized", "valued"
    pc,       \* position of the optimize call: "idle","fix","free","solve","done","raised"
    sched,    \* the `tags` argument of optimize
    stage,    \* index of the schedule entry being processed (1-based)
    kwargs,   \* keyword arguments handed on by optimize to fit
    solver,   \* state of the running least_squares call
    err,      \* what reaches the caller of optimize when it raises: the exception
              \* and the stage index it carries (0: it carries none)
    log,      \* history: the sequence of recipe.fix / recipe.free / fit calls made
    entry,    \* history: the recipe as it was when optimize was called
    call,     \* history: the arguments the recipe was built with
    ret       \* the value the last call of a function without effect returned

vars == <<recipe, phase, pc, sched, stage, kwargs, solver, err, log, entry, call, ret>>

-----------------------------------------------------------------------------
(* Bounds of the model *)

MaxStages == 2      \* longest schedule tried
MaxEvals == 2       \* residual evaluations of one solver call after the one at x0

-----------------------------------------------------------------------------
(* Python values *)

None == "None"
Inf == 1000000
NegInf == 0 - Inf
EmptyFn == [x \in {} |-> 0]
Range(s) == {s[i] : i \in DOMAIN s}

\* truth value of a mode argument: None, "" and False are falsy
Falsy(x) == x \in {None, ""}

-----------------------------------------------------------------------------
(* Strings *)

US == "_"
NonAlnum == {"_", "+", "-", " "}
Digits == {"0", "1", "2", "3"}
DigitVal(c) == CASE c = "0" -> 0 [] c = "1" -> 1 [] c = "2" -> 2 [] OTHER -> 3

isalnum(c) == c \notin NonAlnum
isdigit(s) == Len(s) > 0 /\ \A i \in DOMAIN s : s[i] \in Digits

RECURSIVE int(_)
int(s) == IF Len(s) = 0 THEN 0
          ELSE 10 * int(SubSeq(s, 1, Len(s) - 1)) + DigitVal(s[Len(s)])

\* str.replace on single characters
replace(s, old, new) == [i \in DOMAIN s |-> IF s[i] = old THEN new ELSE s[i]]

\* sep.join(parts)
RECURSIVE join(_, _)
join(sep, parts) ==
    IF Len(parts) = 0 THEN <<>>
    ELSE IF Len(parts) = 1 THEN parts[1]
    ELSE parts[1] \o sep \o join(sep, Tail(parts))

\* s.split("_")
RECURSIVE split(_)
split(s) ==
    IF \A i \in DOMAIN s : s[i] # US THEN <<s>>
    ELSE LET k == CHOOSE i \in DOMAIN s : s[i] = US /\ \A j \in 1..(i - 1) : s[j] # US
         IN  <<SubSeq(s, 1, k - 1)>> \o split(SubSeq(s, k + 1, Len(s)))

reverse(q) == [i \in DOMAIN q |-> q[Len(q) + 1 - i]]

\* the characters of s as a sequence of one-character strings
chars(s) == [i \in DOMAIN s |-> <<s[i]>>]

\* "{}_{}".format(a, b)
fmt2(a, b) == a \o <<US>> \o b
fmt3(a, b, c) == a \o <<US>> \o b \o <<US>> \o c

bleach(s) ==
    join(replace(replace(<<>>, "+", "p"), "-", "n"), chars(SelectSeq(s, isalnum)))

isalpha(c) == isalnum(c) /\ c \notin Digits
only_alpha(s) == join(<<>>, chars(SelectSeq(s, isalpha)))

rename_by_atom(name, atoms) ==
    LET parts == split(name)
    IN  IF Len(parts) > 1 /\ isdigit(parts[2]) /\ int(parts[2]) < Len(atoms)
        THEN join(<<US>>, reverse([parts EXCEPT ![2] = atoms[int(parts[2]) + 1].name]))
        ELSE join(<<US>>, parts)

-----------------------------------------------------------------------------
(* Structures, as the structure library presents them: the atoms, the      *)
(* lattice, and the symmetry-independent parameters (sgpars).              *)

LatticeNames == <<"a", "b", "c", "alpha", "beta", "gamma">>

Atom(name, element, x, y, z, B) ==
    [name |-> name, element |-> element, x |-> x, y |-> y, z |-> z, Biso |-> B]

\* a symmetry-independent parameter: its library name ("x_1"), the atom it
\* belongs to (0-based, -1 for the lattice) and the quantity it stands for
SgPar(sym, atom) ==
    [name |-> IF atom = -1 THEN <<sym>> ELSE <<sym, US, ToString(atom)>>,
     atom |-> atom, sym |-> sym]

\* fcc nickel: one site on a special position
NiStru ==
    [kind |-> "crystal",
     atoms |-> <<Atom(<<"Ni", "0">>, <<"Ni">>, 0, 0, 0, 0)>>,
     lat |-> [a |-> 352, b |-> 352, c |-> 352, alpha |-> 9000, beta |-> 9000, gamma |-> 9000],
     sg_lat |-> <<SgPar("a", -1)>>,
     sg_xyz |-> <<>>,
     sg_adp |-> <<SgPar("Biso", 0)>>]

\* a low-symmetry oxide: charged element labels, two atoms of one element,
\* free coordinates, an anisotropic site
OxStru ==
    [kind |-> "crystal",
     atoms |-> <<Atom(<<"Zr", "0">>, <<"Zr", "4", "+">>, 0, 0, 0, 0),
                 Atom(<<"O", "1">>, <<"O", "2", "-">>, 25, 0, 10, 4),
                 Atom(<<"O", "2">>, <<"O", "2", "-">>, 0, 50, 30, 6)>>,
     lat |-> [a |-> 500, b |-> 500, c |-> 700, alpha |-> 9000, beta |-> 9000, gamma |-> 9000],
     sg_lat |-> <<SgPar("a", -1), SgPar("c", -1)>>,
     sg_xyz |-> <<SgPar("x", 1), SgPar("z", 2)>>,
     sg_adp |-> <<SgPar("B11", 0), SgPar("B12", 0), SgPar("B33", 0),
                  SgPar("Biso", 1), SgPar("Biso", 2)>>]

\* mixed valence: two element labels that differ only in the charge sign
CuStru ==
    [kind |-> "crystal",
     atoms |-> <<Atom(<<"Cu", "0">>, <<"Cu", "+">>, 0, 0, 0, 0),
                 Atom(<<"Cu", "1">>, <<"Cu">>, 50, 50, 50, 0)>>,
     lat |-> [a |-> 400, b |-> 400, c |-> 400, alpha |-> 9000, beta |-> 9000, gamma |-> 9000],
     sg_lat |-> <<SgPar("a", -1)>>,
     sg_xyz |-> <<>>,
     sg_adp |-> <<SgPar("Biso", 0), SgPar("Biso", 1)>>]

\* a site whose label carries the charge: an atom name that is not alphanumeric
NaStru ==
    [kind |-> "crystal",
     atoms |-> <<Atom(<<"Na", "+">>, <<"Na">>, 0, 0, 20, 3)>>,
     lat |-> [a |-> 400, b |-> 400, c |-> 600, alpha |-> 9000, beta |-> 9000, gamma |-> 9000],
     sg_lat |-> <<SgPar("a", -1), SgPar("c", -1)>>,
     sg_xyz |-> <<SgPar("z", 0)>>,
     sg_adp |-> <<SgPar("Biso", 0)>>]

\* nickel loaded as a diffpy.structure Structure (no implicit space group)
NiDiffpy == [NiStru EXCEPT !.kind = "diffpy"]

Structures == {NiStru, OxStru, CuStru, NaStru}

\* par.value of a structure parameter
ParValue(stru, atom, sym) ==
    IF atom = -1 THEN stru.lat[sym]
    ELSE IF sym \in {"x", "y", "z", "Biso"} THEN stru.atoms[atom + 1][sym]
    ELSE 0

\* iteration order of a Python set: it depends on the hash seed of the run
CanonSeq(S) == CHOOSE q \in [1..Cardinality(S) -> S] : Range(q) = S
IterSet(S, seed) == IF seed = 0 THEN CanonSeq(S) ELSE reverse(CanonSeq(S))

RECURSIVE uniq(_)
uniq(q) ==
    IF Len(q) = 0 THEN <<>>
    ELSE LET front == uniq(SubSeq(q, 1, Len(q) - 1))
         IN  IF q[Len(q)] \in Range(front) THEN front ELSE Append(front, q[Len(q)])

-----------------------------------------------------------------------------
(* The recipe (diffpy.srfit FitRecipe as the code uses it).  An operation   *)
(* that raises leaves the exception in r.err; every operation after it in   *)
(* the same call is skipped, as the statements after a raise are.           *)

ALL == <<"all">>

NamesOf(r) == Range(r.names)

\* recipe.getNames(): the free variables, in insertion order
IsFree(r, n) == n \notin r.fixed
getNames(r) == SelectSeq(r.names, LAMBDA n : IsFree(r, n))
FreeSet(r) == {n \in NamesOf(r) : IsFree(r, n)}

\* recipe.getValues(): the values of the free variables, in the same order
getValues(r) == [i \in DOMAIN getNames(r) |-> r.val[getNames(r)[i]]]

\* every tag known to the recipe (each variable is tagged with its own name and "all")
alltags(r) == UNION {r.tags[n] : n \in NamesOf(r)}

\* the key of the parameter a variable is a proxy of
ParKey(owner, atom, sym) == <<owner, atom, sym>>

raise(r, exc) == [r EXCEPT !.err = exc]

\* the names the fitting library accepts: identifiers
isIdentifier(name) ==
    /\ Len(name) > 0 /\ name[1] \notin Digits
    /\ \A i \in DOMAIN name : isalnum(name[i]) \/ name[i] = US

\* recipe.addVar(par, value=, name=, fixed=, tags=)
addVar(r, par, name, value, fixed, tags) ==
    IF r.err # None THEN r
    ELSE IF ~isIdentifier(name) \/ name \in NamesOf(r) THEN raise(r, "ValueError")
    ELSE [r EXCEPT !.names = Append(@, name),
                   !.val = (name :> value) @@ @,
                   !.bnd = (name :> <<NegInf, Inf>>) @@ @,
                   !.fixed = IF fixed THEN @ \cup {name} ELSE @,
                   !.tags = (name :> ({name, ALL} \cup tags)) @@ @,
                   !.par = (name :> par) @@ @]

\* recipe.newVar(name, value=, tags=): a new parameter owned by the recipe
newVar(r, name, value, tags) ==
    addVar(r, ParKey(<<"recipe">>, -1, name), name, value, FALSE, tags)

\* var.boundRange(lb, ub) on the variable just added; Keep (None) keeps a side
Keep == 0 - 2 * Inf
boundRange(r, name, lb, ub) ==
    IF r.err # None THEN r
    ELSE [r EXCEPT !.bnd[name] = <<IF lb = Keep THEN @[1] ELSE lb,
                                   IF ub = Keep THEN @[2] ELSE ub>>]

\* recipe.constrain(atom.Biso, var): the atom's Biso follows the variable
constrain(r, gname, atom, name) ==
    IF r.err # None THEN r
    ELSE [r EXCEPT !.constr = (<<gname, atom>> :> name) @@ @]

\* the variables selected by the string arguments of fix / free
TaggedBy(r, args) == {n \in NamesOf(r) : r.tags[n] \cap args # {}}

\* recipe.fix(*args): unknown tags raise, the tagged variables become fixed
fix(r, args) ==
    IF r.err # None THEN r
    ELSE IF args \ alltags(r) # {} THEN raise(r, "ValueError")
    ELSE [r EXCEPT !.fixed = @ \cup TaggedBy(r, args)]

\* a free that frees the tagged variables and fixes every other one
free_exclusive(r, args) ==
    IF r.err # None THEN r
    ELSE IF args \ alltags(r) # {} THEN raise(r, "ValueError")
    ELSE [r EXCEPT !.fixed = NamesOf(r) \ TaggedBy(r, args)]

\* recipe.free(*args): unknown tags raise, the tagged variables become free
free(r, args) ==
    IF r.err # None THEN r
    ELSE IF args \ alltags(r) # {} THEN raise(r, "ValueError")
    ELSE [r EXCEPT !.fixed = @ \ TaggedBy(r, args)]

\* the value of Biso the generator uses for an atom: the variable's when constrained
EffBiso(r, g, atom) ==
    IF <<r.gens[g].name, atom>> \in DOMAIN r.constr
    THEN r.val[r.constr[<<r.gens[g].name, atom>>]]
    ELSE IF \E n \in NamesOf(r) : r.par[n] = ParKey(r.gens[g].name, atom, <<"Biso">>)
    THEN r.val[CHOOSE n \in NamesOf(r) : r.par[n] = ParKey(r.gens[g].name, atom, <<"Biso">>)]
    ELSE r.gens[g].stru.atoms[atom + 1].Biso

-----------------------------------------------------------------------------
(* modeling/creating.py *)

\* add_prefix(func, prefix, xname): the argument names the function is registered with
add_prefix(args, prefix, xname) ==
    [i \in DOMAIN args |-> IF args[i] # xname THEN fmt2(prefix, args[i]) ELSE args[i]]

\* the arguments of the contribution's equation after setEquation: the
\* arguments of the registered functions and every symbol that names
\* neither a function nor a generator
RECURSIVE EqArgsOf(_, _, _)
EqArgsOf(eq, funconfigs, gnames) ==
    IF Len(eq) = 0 THEN <<>>
    ELSE LET s == eq[1]
             here == IF s \in gnames THEN <<>>
                     ELSE IF \E i \in DOMAIN funconfigs : funconfigs[i].name = s
                     THEN funconfigs[CHOOSE i \in DOMAIN funconfigs :
                                         funconfigs[i].name = s].argnames
                     ELSE <<s>>
         IN  here \o EqArgsOf(Tail(eq), funconfigs, gnames)

\* make_contribution (modeling/fitfuncs.py): generators, registered
\* functions, equation
make_contribution(eq, genconfigs, funconfigs) ==
    [gens |-> genconfigs,
     xname |-> <<"r">>,
     args |-> uniq(EqArgsOf(eq, funconfigs, {genconfigs[i].name : i \in DOMAIN genconfigs}))]

create_con(equation, functions, structures) ==
    LET funconfigs == [i \in DOMAIN functions |->
                          [name |-> functions[i].name,
                           argnames |-> add_prefix(functions[i].args, functions[i].name, <<"r">>)]]
    IN  make_contribution(equation, structures, funconfigs)

\* MyRecipe() with one contribution added: no variables
NewRecipe(con) ==
    [names |-> <<>>, val |-> EmptyFn, bnd |-> EmptyFn, fixed |-> {},
     tags |-> EmptyFn, par |-> EmptyFn, constr |-> EmptyFn,
     gens |-> con.gens, xname |-> con.xname, args |-> con.args, err |-> None]

\* a create that makes the first symbol of the equation a variable
create_with_args(equation, functions, structures) ==
    LET con == create_con(equation, functions, structures)
        args == SelectSeq(con.args, LAMBDA a : a # con.xname)
    IN  IF Len(args) = 0 THEN NewRecipe(con)
        ELSE addVar(NewRecipe(con), ParKey(<<"con">>, -1, args[1]), args[1], 0, FALSE, {})

create(equation, functions, structures) ==
    NewRecipe(create_con(equation, functions, structures))

-----------------------------------------------------------------------------
(* modeling/adding.py *)

DefaultBiso == 5        \* 0.05

add_scale(r, gen, scale) ==
    IF r.err # None \/ ~scale THEN r
    ELSE LET name == fmt2(gen.name, <<"scale">>)
         IN  boundRange(
                 addVar(r, ParKey(gen.name, -1, <<"scale">>), name, 0, FALSE,
                        {fmt2(gen.name, <<"scale">>), <<"scale">>, gen.name}),
                 name, 0, Keep)

add_delta(r, gen, delta) ==
    IF r.err # None \/ Falsy(delta) THEN r
    ELSE IF delta \notin {"1", "2"} THEN raise(r, "ValueError")
    ELSE LET par == IF delta = "1" THEN <<"delta1">> ELSE <<"delta2">>
             name == fmt2(gen.name, par)
         IN  boundRange(
                 addVar(r, ParKey(gen.name, -1, par), name, 0, FALSE,
                        {fmt2(gen.name, <<"delta">>), <<"delta">>, gen.name}),
                 name, 0, Keep)

\* the loop `for par, name in zip(pars, names): recipe.addVar(...)` of
\* add_lat, add_adp and add_xyz; adp says whether the ADP branch (default
\* value, lower bound) or the plain branch is meant, lb whether a lower
\* bound of 0 is set
RECURSIVE add_zip(_, _, _, _, _, _, _)
add_zip(r, gen, pars, names, tags, adp, lb) ==
    IF Len(pars) = 0 \/ Len(names) = 0 THEN r
    ELSE LET par == pars[1]
             name == fmt2(gen.name, names[1])
             pv == ParValue(gen.stru, par.atom, par.sym)
             value == IF adp /\ pv = 0 THEN DefaultBiso ELSE pv
             r1 == addVar(r, ParKey(gen.name, par.atom, <<par.sym>>), name, value, FALSE, tags)
             r2 == IF lb THEN boundRange(r1, name, 0, Keep) ELSE r1
         IN  add_zip(r2, gen, Tail(pars), Tail(names), tags, adp, lb)

\* an add_lat that adds the lattice only to a generator whose scale is a variable
add_lat_coupled(r, gen, lat) ==
    IF r.err # None \/ Falsy(lat) \/ fmt2(gen.name, <<"scale">>) \notin NamesOf(r) THEN r
    ELSE IF lat \notin {"s", "a"} THEN raise(r, "ValueError")
    ELSE LET pars == IF lat = "s" THEN gen.stru.sg_lat
                     ELSE [i \in DOMAIN LatticeNames |-> SgPar(LatticeNames[i], -1)]
         IN  add_zip(r, gen, pars, [i \in DOMAIN pars |-> pars[i].name],
                     {<<"lat">>, gen.name, fmt2(gen.name, <<"lat">>)}, FALSE, TRUE)

add_lat(r, gen, lat) ==
    IF r.err # None \/ Falsy(lat) THEN r
    ELSE IF lat \notin {"s", "a"} THEN raise(r, "ValueError")
    ELSE LET pars == IF lat = "s" THEN gen.stru.sg_lat
                     ELSE [i \in DOMAIN LatticeNames |-> SgPar(LatticeNames[i], -1)]
         IN  add_zip(r, gen, pars, [i \in DOMAIN pars |-> pars[i].name],
                     {<<"lat">>, gen.name, fmt2(gen.name, <<"lat">>)}, FALSE, TRUE)

\* `for element in elements: dct[element] = recipe.newVar(...)`
\* a loop that makes a variable for the first element met only
add_adp_elements_first(r, gen, elements, tags) ==
    IF Len(elements) = 0 THEN r
    ELSE newVar(r, fmt3(gen.name, bleach(elements[1]), <<"Biso">>), DefaultBiso, tags)

\* `for element in elements: dct[element] = recipe.newVar(...)`
RECURSIVE add_adp_elements(_, _, _, _)
add_adp_elements(r, gen, elements, tags) ==
    IF Len(elements) = 0 THEN r
    ELSE add_adp_elements(
             newVar(r, fmt3(gen.name, bleach(elements[1]), <<"Biso">>), DefaultBiso, tags),
             gen, Tail(elements), tags)

\* a loop that constrains every atom to the variable of the first atom's element
add_adp_constrain_first(r, gen, k) ==
    IF r.err # None THEN r
    ELSE [r EXCEPT !.constr =
             [a \in {<<gen.name, i - 1>> : i \in DOMAIN gen.stru.atoms} |->
                 fmt3(gen.name, bleach(gen.stru.atoms[1].element), <<"Biso">>)] @@ @]

\* `for atom in atoms: recipe.constrain(atom.Biso, dct[atom.element])`
RECURSIVE add_adp_constrain(_, _, _)
add_adp_constrain(r, gen, k) ==
    IF k > Len(gen.stru.atoms) THEN r
    ELSE add_adp_constrain(
             constrain(r, gen.name, k - 1,
                       fmt3(gen.name, bleach(gen.stru.atoms[k].element), <<"Biso">>)),
             gen, k + 1)

AdpSymbols == {"Biso", "B11", "B22", "B33"}

\* the list `names` add_adp composes under adp 'a' and 's'
adp_names(gen, adp) ==
    LET atoms == gen.stru.atoms
    IN  IF adp = "a"
        THEN [i \in DOMAIN atoms |-> fmt2(bleach(atoms[i].name), <<"Biso">>)]
        ELSE LET kept == SelectSeq(gen.stru.sg_adp,
                                   LAMBDA p : split(p.name)[1][1] \in AdpSymbols)
             IN  [i \in DOMAIN kept |-> rename_by_atom(kept[i].name, atoms)]

add_adp(r, gen, adp, seed) ==
    IF r.err # None \/ Falsy(adp) THEN r
    ELSE LET atoms == gen.stru.atoms
             tags == {<<"adp">>, gen.name, fmt2(gen.name, <<"adp">>)}
         IN  IF adp = "e"
             THEN LET elements == IterSet({atoms[i].element : i \in DOMAIN atoms}, seed)
                  IN  add_adp_constrain(add_adp_elements(r, gen, elements, tags), gen, 1)
             ELSE IF adp = "a"
             THEN add_zip(r, gen,
                          [i \in DOMAIN atoms |-> SgPar("Biso", i - 1)],
                          adp_names(gen, adp), tags, TRUE, TRUE)
             ELSE IF adp = "s"
             THEN add_zip(r, gen, gen.stru.sg_adp, adp_names(gen, adp), tags, TRUE, TRUE)
             ELSE raise(r, "ValueError")

\* atom.x, atom.y, atom.z of every atom, in that order
AllXyz(atoms) ==
    [i \in 1..(3 * Len(atoms)) |->
        SgPar(<<"x", "y", "z">>[((i - 1) % 3) + 1], (i - 1) \div 3)]

\* the list `pars` of add_xyz
xyz_pars(gen, xyz) == IF xyz = "s" THEN gen.stru.sg_xyz ELSE AllXyz(gen.stru.atoms)

\* the list `names` add_xyz composes
xyz_names(gen, xyz) ==
    LET atoms == gen.stru.atoms
        pars == xyz_pars(gen, xyz)
    IN  IF xyz = "s"
        THEN [i \in DOMAIN pars |-> rename_by_atom(pars[i].name, atoms)]
        ELSE [i \in DOMAIN pars |-> fmt2(atoms[pars[i].atom + 1].name, <<pars[i].sym>>)]

add_xyz(r, gen, xyz) ==
    IF r.err # None \/ Falsy(xyz) THEN r
    ELSE LET tags == {<<"xyz">>, gen.name, fmt2(gen.name, <<"xyz">>)}
         IN  IF xyz \in {"s", "a"}
             THEN add_zip(r, gen, xyz_pars(gen, xyz), xyz_names(gen, xyz), tags, FALSE, FALSE)
             ELSE raise(r, "ValueError")

\* add_gen_vars with names=None: every generator of the contribution in turn
RECURSIVE add_gen_vars(_, _, _, _, _, _, _, _)
add_gen_vars(r, k, scale, delta, lat, adp, xyz, seed) ==
    IF k > Len(r.gens) THEN r
    ELSE LET gen == r.gens[k]
             r1 == add_scale(r, gen, scale)
             r2 == add_delta(r1, gen, delta)
             r3 == add_lat(r2, gen, lat)
             r4 == add_adp(r3, gen, adp, seed)
             r5 == add_xyz(r4, gen, xyz)
         IN  add_gen_vars(r5, k + 1, scale, delta, lat, adp, xyz, seed)

\* `for par in pars: recipe.addVar(par, tag=par.name.split("_")[0])`
RECURSIVE add_params_loop(_, _)
add_params_loop(r, pars) ==
    IF Len(pars) = 0 THEN r
    ELSE add_params_loop(
             addVar(r, ParKey(<<"con">>, -1, pars[1]), pars[1], 0, FALSE, {split(pars[1])[1]}),
             Tail(pars))

\* params is None, a string or a list of names
NoParams == [kind |-> "none", items |-> <<>>]
StrParams(str) == [kind |-> "str", items |-> str]
ListParams(lst) == [kind |-> "list", items |-> lst]

add_params(r, params) ==
    IF r.err # None \/ params.kind = "none" \/ Len(params.items) = 0 THEN r
    ELSE LET args == SelectSeq(r.args, LAMBDA a : a # r.xname)
             wanted == IF params.kind = "str" THEN chars(params.items) ELSE params.items
         IN  IF params.kind = "str" /\ params.items = <<"a">>
             THEN add_params_loop(r, args)
             ELSE IF \E i \in DOMAIN wanted : wanted[i] \notin Range(args)
             THEN raise(r, "KeyError")
             ELSE add_params_loop(r, wanted)

\* add_con_vars with name=None: the one contribution of the recipe
add_con_vars(r, params) == add_params(r, params)

initialize(r, scale, delta, lat, adp, xyz, params, seed) ==
    add_gen_vars(add_con_vars(r, params), 1, scale, delta, lat, adp, xyz, seed)

-----------------------------------------------------------------------------
(* modeling/fitfuncs.py and modeling/main.py: multi_phase *)

\* dict.get(key, default)
get(dct, key, default) == IF key \in DOMAIN dct THEN dct[key] ELSE default

make_recipe(eq, genconfigs, funconfigs) ==
    NewRecipe(make_contribution(eq, genconfigs, funconfigs))

\* the loop of cfconstrain over the chosen parameters
RECURSIVE cfconstrain_loop(_, _, _, _)
cfconstrain_loop(r, pars, dv, bounds) ==
    IF Len(pars) = 0 THEN r
    ELSE LET name == pars[1]
             b == get(bounds, name, <<NegInf, Inf>>)
         IN  cfconstrain_loop(
                 boundRange(
                     addVar(r, ParKey(<<"con">>, -1, name), name, get(dv, name, 0), FALSE,
                            {<<"cf">>}),
                     name, b[1], b[2]),
                 Tail(pars), dv, bounds)

\* param_names is None (every argument of the equation) or a list of names
cfconstrain(r, param_names, dv, bounds, seed) ==
    IF r.err # None THEN r
    ELSE LET args == {a \in Range(r.args) : a # r.xname}
         IN  IF param_names.kind = "none"
             THEN cfconstrain_loop(r, IterSet(args, seed), dv, bounds)
             ELSE IF \E i \in DOMAIN param_names.items :
                         param_names.items[i] \notin Range(r.args)
             THEN raise(r, "AttributeError")
             ELSE cfconstrain_loop(r, IterSet(Range(param_names.items), seed), dv, bounds)

cfconstrain_all(r, dv, bounds, seed) == cfconstrain(r, NoParams, dv, bounds, seed)

\* the independent parameters when no symmetry is imposed (space group P1)
P1Pars(stru) ==
    [sg_lat |-> [i \in DOMAIN LatticeNames |-> SgPar(LatticeNames[i], -1)],
     sg_xyz |-> AllXyz(stru.atoms)]

get_sgpars(stru, sg) ==
    IF stru.kind = "crystal" THEN [sg_lat |-> stru.sg_lat, sg_xyz |-> stru.sg_xyz]
    ELSE IF sg = None THEN P1Pars(stru)
    ELSE [sg_lat |-> stru.sg_lat, sg_xyz |-> stru.sg_xyz]

\* the lattice and the coordinate loops of sgconstrain
RECURSIVE sgconstrain_pars(_, _, _, _, _, _, _)
sgconstrain_pars(r, gen, pars, dv, bounds, tag, xyz) ==
    IF Len(pars) = 0 THEN r
    ELSE LET par == pars[1]
             name == fmt2(par.name, gen.name)
             pv == ParValue(gen.stru, par.atom, par.sym)
             b == get(bounds, name, IF xyz THEN <<NegInf, Inf>> ELSE <<0, 2 * pv>>)
         IN  sgconstrain_pars(
                 boundRange(
                     addVar(r, ParKey(gen.name, par.atom, <<par.sym>>), name,
                            get(dv, name, pv), xyz, {tag}),
                     name, b[1], b[2]),
                 gen, Tail(pars), dv, bounds, tag, xyz)

\* `for element in elements: ... recipe.newVar(name, ...)`
RECURSIVE sgconstrain_elements(_, _, _, _, _)
sgconstrain_elements(r, gen, elements, dv, bounds) ==
    IF Len(elements) = 0 THEN r
    ELSE LET name == fmt3(<<"Biso">>, only_alpha(elements[1]), gen.name)
             b == get(bounds, name, <<0, Inf>>)
         IN  sgconstrain_elements(
                 boundRange(
                     newVar(r, name, get(dv, name, DefaultBiso), {fmt2(<<"adp">>, gen.name)}),
                     name, b[1], b[2]),
                 gen, Tail(elements), dv, bounds)

RECURSIVE sgconstrain_constrain(_, _, _)
sgconstrain_constrain(r, gen, k) ==
    IF k > Len(gen.stru.atoms) THEN r
    ELSE sgconstrain_constrain(
             constrain(r, gen.name, k - 1,
                       fmt3(<<"Biso">>, only_alpha(gen.stru.atoms[k].element), gen.name)),
             gen, k + 1)

sgconstrain(r, gen_name, sg, dv, bounds, add_xyz_flag, seed) ==
    IF r.err # None THEN r
    ELSE IF \A i \in DOMAIN r.gens : r.gens[i].name # gen_name THEN raise(r, "AttributeError")
    ELSE LET gen == r.gens[CHOOSE i \in DOMAIN r.gens : r.gens[i].name = gen_name]
             sname == fmt2(<<"scale">>, gen.name)
             bs == get(bounds, sname, <<0, Inf>>)
             r1 == boundRange(
                       addVar(r, ParKey(gen.name, -1, <<"scale">>), sname, get(dv, sname, 0),
                              FALSE, {}),
                       sname, bs[1], bs[2])
             dname == fmt2(<<"delta2">>, gen.name)
             bd == get(bounds, dname, <<0, Inf>>)
             r2 == boundRange(
                       addVar(r1, ParKey(gen.name, -1, <<"delta2">>), dname, get(dv, dname, 0),
                              FALSE, {}),
                       dname, bd[1], bd[2])
             sgpars == get_sgpars(gen.stru, sg)
             r3 == sgconstrain_pars(r2, gen, sgpars.sg_lat, dv, bounds,
                                    fmt2(<<"lat">>, gen.name), FALSE)
             atoms == gen.stru.atoms
             elements == IterSet({atoms[i].element : i \in DOMAIN atoms}, seed)
             r4 == sgconstrain_constrain(
                       sgconstrain_elements(r3, gen, elements, dv, bounds), gen, 1)
         IN  IF add_xyz_flag
             THEN sgconstrain_pars(r4, gen, sgpars.sg_xyz, dv, bounds,
                                   fmt2(<<"xyz">>, gen.name), TRUE)
             ELSE r4

RECURSIVE sgconstrain_all_loop(_, _, _, _, _)
sgconstrain_all_loop(r, k, dv, bounds, seed) ==
    IF k > Len(r.gens) THEN r
    ELSE sgconstrain_all_loop(
             sgconstrain(r, r.gens[k].name, None, dv, bounds, TRUE, seed),
             k + 1, dv, bounds, seed)

sgconstrain_all(r, dv, bounds, seed) == sgconstrain_all_loop(r, 1, dv, bounds, seed)

\* `for gen_name, space_group in sg_params.items(): sgconstrain(...)`
RECURSIVE multi_phase_sg(_, _, _)
multi_phase_sg(r, sg_params, seed) ==
    IF Len(sg_params) = 0 THEN r
    ELSE multi_phase_sg(
             sgconstrain(r, sg_params[1].gen, sg_params[1].sg, EmptyFn, EmptyFn, TRUE, seed),
             Tail(sg_params), seed)

\* add_suffix(func, suffix)
add_suffix(args, suffix) ==
    [i \in DOMAIN args |-> IF args[i] # <<"r">> THEN fmt2(args[i], suffix) ELSE args[i]]

GenName(i) == <<"G" \o ToString(i)>>
FunName(i) == <<"f" \o ToString(i)>>

\* the phases are structures, or (characteristic function, structure) pairs
\* (cf is the argument list of the function, <<>> for a pure structure);
\* cf_params is None or a list; sg_params is None or a list of (generator,
\* space group)
multi_phase(phases, values, bounds, cf_params, sg_params, add_eq, seed) ==
    LET genconfigs == [i \in DOMAIN phases |-> [name |-> GenName(i - 1), stru |-> phases[i].stru]]
        withcf == SelectSeq([i \in DOMAIN phases |-> i], LAMBDA i : Len(phases[i].cf) > 0)
        funconfigs == [k \in DOMAIN withcf |->
                          [name |-> FunName(withcf[k] - 1),
                           argnames |-> add_suffix(phases[withcf[k]].cf, FunName(withcf[k] - 1))]]
        eqs == [i \in DOMAIN phases |->
                   IF Len(phases[i].cf) > 0 THEN <<GenName(i - 1), FunName(i - 1)>>
                   ELSE <<GenName(i - 1)>>]
        total_eq == join(<<>>, eqs) \o add_eq
        recipe0 == make_recipe(total_eq, genconfigs, funconfigs)
        r1 == IF cf_params.kind = "none"
              THEN cfconstrain_all(recipe0, values, bounds, seed)
              ELSE cfconstrain(recipe0, cf_params, EmptyFn, EmptyFn, seed)
    IN  IF sg_params.kind = "none"
        THEN sgconstrain_all(r1, values, bounds, seed)
        ELSE multi_phase_sg(r1, sg_params.items, seed)

-----------------------------------------------------------------------------
(* modeling/setting.py *)

\* set_values(recipe, values, ignore): values is a dict, here a sequence of
\* (name, value) pairs in the dict's order
RECURSIVE set_values(_, _, _)
set_values(r, values, ignore) ==
    IF r.err # None \/ Len(values) = 0 THEN r
    ELSE LET name == values[1][1]
         IN  IF name \notin NamesOf(r)
             THEN IF ignore THEN set_values(r, Tail(values), ignore)
                  ELSE raise(r, "ValueError")
             ELSE set_values([r EXCEPT !.val[name] = values[1][2]], Tail(values), ignore)

-----------------------------------------------------------------------------
(* Inputs *)

SphericalCF == <<<<"r">>, <<"psize">>>>      \* the arguments of F.sphericalCF

\* "f0 * G0 + A * sin(r)", "G0" and "sp_cf * G0": the symbols of the equation
Equations ==
    {[equation |-> <<<<"f0">>, <<"G0">>, <<"A">>, <<"r">>>>,
      functions |-> <<[name |-> <<"f0">>, args |-> SphericalCF]>>],
     [equation |-> <<<<"G0">>>>, functions |-> <<>>],
     [equation |-> <<<<"sp", US, "cf">>, <<"G0">>>>,
      functions |-> <<[name |-> <<"sp", US, "cf">>, args |-> SphericalCF]>>]}

StructureDicts == {<<[name |-> <<"G0">>, stru |-> s]>> : s \in Structures}

ScaleArgs == BOOLEAN
DeltaArgs == {None, "1", "2", "haha", ""}
LatArgs == {None, "s", "a", "haha", ""}
AdpArgs == {None, "a", "e", "s", "haha", ""}
XyzArgs == {None, "s", "a", "haha", ""}
ParamsArgs == {NoParams, StrParams(<<"a">>), ListParams(<<<<"A">>>>),
               StrParams(<<"h", "a", "h", "a">>)}
Seeds == {0, 1}

CreateCall(e, sd) ==
    [op |-> "create", equation |-> e.equation, functions |-> e.functions, structures |-> sd]

InitializeCall(c, scale, delta, lat, adp, xyz, params, seed) ==
    [op |-> "initialize", equation |-> c.equation, functions |-> c.functions,
     structures |-> c.structures, scale |-> scale, delta |-> delta, lat |-> lat,
     adp |-> adp, xyz |-> xyz, params |-> params, seed |-> seed]

MultiPhaseCall(phases, values, bounds, cf_params, sg_params, add_eq, seed) ==
    [op |-> "multi_phase", phases |-> phases, values |-> values, bounds |-> bounds,
     cf_params |-> cf_params, sg_params |-> sg_params, add_eq |-> add_eq, seed |-> seed]

\* the recipe a call builds
Build(c) ==
    IF c.op = "create" THEN create(c.equation, c.functions, c.structures)
    ELSE IF c.op = "initialize"
    THEN initialize(create(c.equation, c.functions, c.structures),
                    c.scale, c.delta, c.lat, c.adp, c.xyz, c.params, c.seed)
    ELSE multi_phase(c.phases, c.values, c.bounds, c.cf_params, c.sg_params, c.add_eq, c.seed)

NoCall == [op |-> "none"]
NoRecipe == NewRecipe([gens |-> <<>>, xname |-> <<"r">>, args |-> <<>>])
\* max_nfev=None: least_squares chooses its own limit
NoLimit == 0 - 1
NoSolver == [best |-> EmptyFn, nev |-> 0, raised |-> FALSE, max_nfev |-> NoLimit]
NoErr == [exc |-> None, stage |-> 0]
NoRet == [op |-> "none"]

Idle ==
    /\ pc = "idle" /\ sched = <<>> /\ stage = 0 /\ kwargs = EmptyFn
    /\ solver = NoSolver /\ err = NoErr /\ log = <<>> /\ entry = NoRecipe
    /\ ret = NoRet

OptUnchanged == UNCHANGED <<pc, sched, stage, kwargs, solver, err, log, entry, ret>>

-----------------------------------------------------------------------------
(* Building a recipe *)

InitBuild == recipe = NoRecipe /\ phase = "none" /\ call = NoCall /\ Idle

Create ==
    /\ phase = "none"
    /\ \E e \in Equations, sd \in StructureDicts :
          /\ call' = CreateCall(e, sd)
          /\ recipe' = create(e.equation, e.functions, sd)
    /\ phase' = "created"
    /\ OptUnchanged

Initialize ==
    /\ phase = "created"
    /\ \E scale \in ScaleArgs, delta \in DeltaArgs, lat \in LatArgs, adp \in AdpArgs,
          xyz \in XyzArgs, params \in ParamsArgs, seed \in Seeds :
          /\ call' = InitializeCall(call, scale, delta, lat, adp, xyz, params, seed)
          /\ recipe' = initialize(recipe, scale, delta, lat, adp, xyz, params, seed)
    /\ phase' = "initialized"
    /\ OptUnchanged

Phases == {<<[cf |-> cf, stru |-> s]>> :
              cf \in {<<>>, SphericalCF}, s \in {NiStru, OxStru, NiDiffpy}}
ValueDicts == {EmptyFn, (<<"scale", US, "G0">> :> 10) @@ (<<"psize", US, "f0">> :> 300)}
BoundDicts == {EmptyFn, (<<"scale", US, "G0">> :> <<-100, 100>>)
                         @@ (<<"psize", US, "f0">> :> <<2, 400>>)}
CfParams == {NoParams, ListParams(<<>>), ListParams(<<<<"psize", US, "f0">>>>)}
SgParams == {NoParams, ListParams(<<>>),
             ListParams(<<[gen |-> <<"G0">>, sg |-> "225"]>>),
             ListParams(<<[gen |-> <<"G0">>, sg |-> None]>>)}
AddEqs == {<<>>, <<<<"A">>, <<"r">>>>}

MultiPhase ==
    /\ phase = "none"
    /\ \E phases \in Phases, values \in ValueDicts, bounds \in BoundDicts,
          cf_params \in CfParams, sg_params \in SgParams, add_eq \in AddEqs, seed \in Seeds :
          /\ call' = MultiPhaseCall(phases, values, bounds, cf_params, sg_params, add_eq, seed)
          /\ recipe' = multi_phase(phases, values, bounds, cf_params, sg_params, add_eq, seed)
    /\ phase' = "initialized"
    /\ OptUnchanged

NextBuild == Create \/ Initialize \/ MultiPhase

SpecBuild == InitBuild /\ [][NextBuild]_vars

-----------------------------------------------------------------------------
(* Staged refinement: optimize (modeling/main.py), fit (modeling/fitfuncs.py), *)
(* MyRecipe.optimize (core.py)                                                 *)

StrEntry(t) == [kind |-> "str", tags |-> <<t>>]
IterEntry(ts) == [kind |-> "iter", tags |-> ts]

\* the schedule entries tried: tags of the initialize convention, tags of
\* the multi_phase convention, and a tag no recipe has
EntryPool ==
    {StrEntry(<<"G0", US, "scale">>),
     IterEntry(<<<<"G0", US, "lat">>, <<"G0", US, "adp">>>>),
     StrEntry(<<"scale", US, "G0">>),
     IterEntry(<<<<"lat", US, "G0">>, <<"adp", US, "G0">>>>),
     StrEntry(<<"lat", US, "G9">>)}

Schedules == UNION {[1..n -> EntryPool] : n \in 0..MaxStages}

\* the keyword arguments optimize receives besides tags: none (a direct
\* call) or validate (MyRecipe.optimize with its default)
KwargsSets == {EmptyFn, ("validate" :> TRUE)}

\* the trial values of the solver
SolverVals == {3, 8}

\* the recipes refined
InitCalls ==
    LET e1 == [equation |-> <<<<"f0">>, <<"G0">>, <<"A">>, <<"r">>>>,
               functions |-> <<[name |-> <<"f0">>, args |-> SphericalCF]>>]
        e2 == [equation |-> <<<<"G0">>>>, functions |-> <<>>]
        sd(st) == <<[name |-> <<"G0">>, stru |-> st]>>
    IN  {InitializeCall(CreateCall(e1, sd(NiStru)), TRUE, "2", "s", "a", "s",
                        StrParams(<<"a">>), 0),
         InitializeCall(CreateCall(e2, sd(OxStru)), TRUE, None, "s", "e", "s", NoParams, 0),
         InitializeCall(CreateCall(e2, sd(OxStru)), TRUE, None, "s", "e", "s", NoParams, 1),
         MultiPhaseCall(<<[cf |-> SphericalCF, stru |-> NiStru]>>, EmptyFn, EmptyFn,
                        NoParams, ListParams(<<[gen |-> <<"G0">>, sg |-> "225"]>>), <<>>, 0),
         MultiPhaseCall(<<[cf |-> <<>>, stru |-> OxStru]>>, EmptyFn, EmptyFn,
                        NoParams, NoParams, <<>>, 0)}

Init ==
    /\ \E c \in InitCalls : call = c /\ recipe = Build(c)
    /\ phase = "initialized"
    /\ Idle

\* an optimize that frees only the first tag of an entry
EntryTagsFirst(e) == {e.tags[1]}

\* the string arguments handed to recipe.free for a schedule entry
EntryTags(e) == Range(e.tags)

\* the values of the free variables as a mapping (recipe.values)
FreeValues(r) == [n \in FreeSet(r) |-> r.val[n]]

\* recipe.residual(p): the free variables take the values p
residual(r, p) == [r EXCEPT !.val = [n \in DOMAIN @ |-> IF n \in DOMAIN p THEN p[n] ELSE @[n]]]

Clip(v, b) == IF v < b[1] THEN b[1] ELSE IF v > b[2] THEN b[2] ELSE v

\* fit(recipe, **kwargs) up to the call of least_squares: the start point is
\* recipe.values, the limit on evaluations is read from the keywords
fit_start(r, kw) ==
    [best |-> FreeValues(r), nev |-> 0, raised |-> FALSE,
     max_nfev |-> IF "max_fev" \in DOMAIN kw THEN kw["max_fev"] ELSE NoLimit]

\* a call of set_values between construction and refinement
NewValues == {7}
\* the names tried: the ADP variables and a name the recipe does not have
SetNames(r) ==
    {n \in NamesOf(r) : r.tags[n] \cap {<<"adp">>, <<"adp", US, "G0">>} # {}} \cup {<<"nope">>}
SetValues ==
    /\ pc = "idle" /\ phase = "initialized" /\ ret = NoRet
    /\ \E n \in SetNames(recipe), v \in NewValues, ignore \in BOOLEAN :
          recipe' = set_values([recipe EXCEPT !.err = None], <<<<n, v>>>>, ignore)
    /\ phase' = "valued"
    /\ UNCHANGED call
    /\ OptUnchanged

\* optimize(recipe, tags, **kwargs) is entered
OptCall ==
    /\ pc = "idle" /\ phase \in {"initialized", "valued"}
    /\ \E tags \in Schedules, kw \in KwargsSets :
          /\ sched' = tags
          /\ kwargs' = kw
    /\ entry' = recipe
    /\ recipe' = [recipe EXCEPT !.err = None]
    /\ pc' = "fix"
    /\ UNCHANGED <<phase, stage, solver, err, log, call, ret>>

\* an optimize that starts the loop without fixing anything
OptFixNothing ==
    /\ pc = "fix"
    /\ log' = Append(log, <<"fix", 0, {ALL}>>)
    /\ IF Len(sched) = 0
       THEN pc' = "done" /\ UNCHANGED stage
       ELSE pc' = "free" /\ stage' = 1
    /\ UNCHANGED <<recipe, phase, sched, kwargs, solver, err, entry, call, ret>>

\* recipe.fix('all')
OptFixAll ==
    /\ pc = "fix"
    /\ LET r1 == fix(recipe, {ALL})
       IN  IF r1.err # None
           THEN /\ pc' = "raised"
                /\ err' = [exc |-> r1.err, stage |-> 0]
                /\ UNCHANGED <<recipe, stage, log>>
           ELSE /\ recipe' = r1
                /\ log' = Append(log, <<"fix", 0, {ALL}>>)
                /\ IF Len(sched) = 0
                   THEN pc' = "done" /\ UNCHANGED stage
                   ELSE pc' = "free" /\ stage' = 1
                /\ UNCHANGED err
    /\ UNCHANGED <<phase, sched, kwargs, solver, entry, call, ret>>

\* one turn of the loop up to the call of least_squares: recipe.free(tag)
\* or recipe.free(*tag), then fit(recipe, **kwargs) evaluates the residual
\* at the recipe's values
OptFree ==
    /\ pc = "free"
    /\ LET r1 == free(recipe, EntryTags(sched[stage]))
       IN  IF r1.err # None
           THEN /\ pc' = "raised"
                /\ err' = [exc |-> r1.err, stage |-> 0]
                /\ UNCHANGED <<recipe, solver, log>>
           ELSE /\ recipe' = r1
                /\ log' = log \o <<<<"free", stage, EntryTags(sched[stage])>>, <<"fit", stage, {}>>>>
                /\ solver' = fit_start(r1, kwargs)
                /\ pc' = "solve"
                /\ UNCHANGED err
    /\ UNCHANGED <<phase, sched, stage, kwargs, entry, call, ret>>

\* least_squares evaluates recipe.residual at a trial point inside the
\* bounds, and keeps the point as its iterate or not; the evaluation at the
\* start point counts towards max_nfev
SolveEval ==
    /\ pc = "solve"
    /\ solver.nev < MaxEvals
    /\ solver.max_nfev = NoLimit \/ solver.nev + 1 < solver.max_nfev
    /\ \E c \in SolverVals, accept \in BOOLEAN :
          LET p == [n \in FreeSet(recipe) |-> Clip(c, recipe.bnd[n])]
          IN  /\ recipe' = residual(recipe, p)
              /\ solver' = [solver EXCEPT !.best = IF accept THEN p ELSE @,
                                           !.nev = @ + 1]
    /\ UNCHANGED <<phase, pc, sched, stage, kwargs, err, log, entry, call, ret>>

\* least_squares returns its iterate; fit drops the result and returns;
\* the loop goes on
SolveReturn ==
    /\ pc = "solve"
    /\ log' = Append(log, <<"return", stage, {}>>)
    /\ IF stage = Len(sched)
       THEN pc' = "done" /\ UNCHANGED stage
       ELSE pc' = "free" /\ stage' = stage + 1
    /\ UNCHANGED <<recipe, phase, sched, kwargs, solver, err, entry, call, ret>>

\* an optimize that swallows the solver's exception and goes on
SolveRaiseSwallowed ==
    /\ pc = "solve"
    /\ solver' = [solver EXCEPT !.raised = TRUE]
    /\ log' = Append(log, <<"return", stage, {}>>)
    /\ IF stage = Len(sched)
       THEN pc' = "done" /\ UNCHANGED stage
       ELSE pc' = "free" /\ stage' = stage + 1
    /\ UNCHANGED <<recipe, phase, sched, kwargs, err, entry, call, ret>>

\* least_squares raises; neither fit nor optimize catches anything
SolveRaise ==
    /\ pc = "solve"
    /\ solver' = [solver EXCEPT !.raised = TRUE]
    /\ pc' = "raised"
    /\ err' = [exc |-> "SolverError", stage |-> 0]
    /\ UNCHANGED <<recipe, phase, sched, stage, kwargs, log, entry, call, ret>>

Next == SetValues \/ OptCall \/ OptFixAll \/ OptFree \/ SolveEval \/ SolveReturn \/ SolveRaise

Spec == Init /\ [][Next]_vars

\* the interpreter runs one thread and every call made returns or raises:
\* a step that can be taken is taken
FairSpec == Spec /\ WF_vars(Next)

-----------------------------------------------------------------------------
(* Properties of the staged refinement *)

\* C1: during one optimize call, once fix('all') has run, no step makes a
\* free variable fixed: the variables free after a stage are still free
\* after the next one.
C1_FreeSetGrows ==
    [][(pc \in {"free", "solve"}) => (FreeSet(recipe) \subseteq FreeSet(recipe)')]_vars

\* two stages have run, the second one freed variables the first had not
C1_TwoStagesDone ==
    /\ pc = "done" /\ Len(sched) = 2
    /\ TaggedBy(recipe, EntryTags(sched[1])) # {}
    /\ TaggedBy(recipe, EntryTags(sched[2])) \ TaggedBy(recipe, EntryTags(sched[1])) # {}
    /\ TaggedBy(recipe, EntryTags(sched[1])) \ TaggedBy(recipe, EntryTags(sched[2])) # {}

\* C2: a call with validate=True whose schedule holds a string that is
\* neither a tag nor a variable name of the recipe fails with the unknown-tag
\* error before any solver call, with every flag and value as at entry.
C2_UnknownTagFailsFirst ==
    (/\ pc # "idle"
     /\ "validate" \in DOMAIN kwargs /\ kwargs["validate"]
     /\ \E i \in DOMAIN sched : Range(sched[i].tags) \ alltags(entry) # {})
    => /\ pc \in {"fix", "raised"}
       /\ pc = "raised" => err.exc = "ValueError"
       /\ recipe.fixed = entry.fixed
       /\ recipe.val = entry.val
       /\ \A i \in DOMAIN log : log[i][1] # "fit"

\* the unknown tag is met in the second stage, after the first stage's solve
C2_UnknownTagMetLate ==
    /\ pc = "raised" /\ err.exc = "ValueError" /\ stage = 2
    /\ "validate" \in DOMAIN kwargs /\ kwargs["validate"]
    /\ \E i \in DOMAIN log : log[i][1] = "fit"
    /\ recipe.val # entry.val

\* C3: when a stage's solver call has returned, the free variables of the
\* recipe hold the vector the solver returned.
C3_RecipeHoldsSolverResult ==
    (Len(log) > 0 /\ log[Len(log)][1] = "return") => FreeValues(recipe) = solver.best

\* the solver returned a point other than the last one it evaluated
C3_LastPointKept ==
    /\ Len(log) > 0 /\ log[Len(log)][1] = "return"
    /\ solver.nev > 0
    /\ FreeValues(recipe) # solver.best

\* C4: when the solver call of a stage raises, the exception reaches the
\* caller with the recipe, the stage and the calls made as they were, and
\* nothing happens after it: no later tag is freed, no solver call is made.
C4_SolverFailureAborts ==
    [][/\ ~solver.raised
       /\ solver'.raised => /\ pc' = "raised" /\ err'.exc = "SolverError"
                            /\ recipe' = recipe /\ log' = log /\ stage' = stage]_vars

\* the solver raised in the first of two stages
C4_RaisedInFirstStage ==
    /\ solver.raised /\ pc = "raised" /\ stage = 1 /\ Len(sched) = 2
    /\ Range(sched[2].tags) \subseteq alltags(recipe)
    /\ TaggedBy(recipe, Range(sched[2].tags)) \cap FreeSet(recipe) = {}

\* C5: a solver failure reaches the caller together with the index of the
\* stage that failed.
C5_FailureCarriesStage == solver.raised => err.stage = stage

\* the solver raised in the second stage
C5_RaisedInSecondStage == solver.raised /\ pc = "raised" /\ stage = 2

\* the calls optimize makes for a schedule when every solve returns
ExpectedLog(tags) ==
    [j \in 1..(3 * Len(tags) + 1) |->
        IF j = 1 THEN <<"fix", 0, {ALL}>>
        ELSE LET i == ((j - 2) \div 3) + 1
                 k == (j - 2) % 3
             IN  IF k = 0 THEN <<"free", i, Range(tags[i].tags)>>
                 ELSE IF k = 1 THEN <<"fit", i, {}>>
                 ELSE <<"return", i, {}>>]

IsPrefix(p, q) == Len(p) <= Len(q) /\ \A i \in DOMAIN p : p[i] = q[i]

\* C6: optimize fixes all variables, then for each entry in order frees
\* every tag of the entry and calls the solver once, starting the next
\* entry after the solve returned; a call that does not raise makes exactly
\* one solve per entry, and every call ends.
C6_StrictOrder ==
    /\ [](/\ IsPrefix(log, ExpectedLog(sched))
          /\ pc \in {"free", "solve", "done"} => log[1][1] = "fix" /\ recipe.fixed # {}
          /\ pc = "solve" => /\ TaggedBy(recipe, Range(sched[stage].tags)) \subseteq FreeSet(recipe)
                             /\ log[Len(log)] = <<"fit", stage, {}>>
          /\ pc = "done" => log = ExpectedLog(sched))
    /\ (pc = "fix" ~> pc \in {"done", "raised"})

\* a schedule of a single tag and a pair of tags has run to its end
C6_MixedScheduleDone ==
    /\ pc = "done" /\ Len(sched) = 2
    /\ sched[1].kind = "str" /\ sched[2].kind = "iter"
    /\ Cardinality({i \in DOMAIN log : log[i][1] = "fit"}) = 2

-----------------------------------------------------------------------------
(* Properties of the construction *)

\* C7: the recipe create returns has no variables, whatever the equation,
\* the functions and the structures, also when the equation has symbols of
\* its own; such a symbol is a variable only after initialize was given params.
C7_CreateAddsNoVariable ==
    /\ phase = "created" =>
          /\ getNames(recipe) = <<>> /\ getValues(recipe) = <<>>
          /\ NamesOf(recipe) = {}
    /\ (phase = "initialized" /\ call.op = "initialize" /\ call.params.kind = "none") =>
          NamesOf(recipe) \cap Range(recipe.args) = {}

\* a recipe just created from "f0 * G0 + A * sin(r)"
C7_CreatedWithFreeSymbol ==
    /\ phase = "created"
    /\ <<"A">> \in Range(recipe.args)
    /\ <<"f0", US, "psize">> \in Range(recipe.args)

\* the coordinate variables of a recipe
XyzVars(r) == {n \in NamesOf(r) : r.par[n][3] \in {<<"x">>, <<"y">>, <<"z">>}}

\* C8: the coordinate variables added in symmetry-reduced mode (initialize
\* with xyz='s', sgconstrain with add_xyz=True) are fixed when added.
C8_SymmetryXyzFixed ==
    (/\ phase = "initialized"
     /\ \/ call.op = "initialize" /\ call.xyz = "s"
        \/ call.op = "multi_phase")
    => XyzVars(recipe) \subseteq recipe.fixed

\* initialize with xyz='s' has added the independent coordinates of a
\* structure that has some
C8_SymmetryXyzAdded ==
    /\ phase = "initialized" /\ call.op = "initialize" /\ call.xyz = "s"
    /\ recipe.err = None
    /\ XyzVars(recipe) # {}

-----------------------------------------------------------------------------
(* Properties of the element-wise ADP variables *)

-----------------------------------------------------------------------------
(* Mode tokens (modeling/adding.py) *)

\* a mode token outside the ones the documentation of initialize lists
\* (None skips the step)
UndocumentedMode(c) ==
    \/ c.delta \notin {None, "1", "2"} \/ c.lat \notin {None, "s", "a"}
    \/ c.adp \notin {None, "a", "e", "s"} \/ c.xyz \notin {None, "s", "a"}

\* C11: when the contribution-level step of initialize has returned, a
\* delta, lat, adp or xyz token outside the documented set makes the call
\* raise ValueError.
C11_InvalidModeRaises ==
    (/\ call.op = "initialize"
     /\ add_con_vars(create(call.equation, call.functions, call.structures),
                     call.params).err = None
     /\ UndocumentedMode(call))
        => recipe.err = "ValueError"

\* the empty token for every step: the call returns and adds no variable
C11_EmptyTokenSkips ==
    /\ call.op = "initialize"
    /\ call.delta = "" /\ call.lat = "" /\ call.adp = "" /\ call.xyz = ""
    /\ ~call.scale /\ call.params = NoParams
    /\ recipe.err = None /\ NamesOf(recipe) = {}

-----------------------------------------------------------------------------
(* Names of the generator variables *)

\* the variables made from a generator's parameters (scale, delta, lattice,
\* ADP, coordinates), as opposed to those of the equation's symbols
GenVars(r) == {n \in NamesOf(r) : r.par[n][1] # <<"con">>}

\* the quantities a generator variable stands for
Quantities ==
    {<<q>> : q \in {"scale", "delta1", "delta2", "x", "y", "z"}
                       \cup AdpSymbols \cup Range(LatticeNames)}

\* "{generator}_{quantity}" or "{generator}_{label}_{quantity}"
GeneratorFirst(r, n) ==
    LET parts == split(n)
    IN  /\ Len(parts) \in {2, 3}
        /\ \E i \in DOMAIN r.gens : parts[1] = r.gens[i].name
        /\ parts[Len(parts)] \in Quantities

\* C12: every generator variable of a recipe built by initialize or by
\* multi_phase is named generator first, quantity last.
C12_OneConvention ==
    (call.op \in {"initialize", "multi_phase"} /\ recipe.err = None) =>
        \A n \in GenVars(recipe) : GeneratorFirst(recipe, n)

\* multi_phase has added the scale of G0 under the name "scale_G0"
C12_MultiPhaseNamedScale ==
    /\ call.op = "multi_phase" /\ recipe.err = None
    /\ <<"scale", US, "G0">> \in GenVars(recipe)
    /\ <<"G0", US, "scale">> \notin NamesOf(recipe)

\* the recipe the same create and initialize arguments build when sets are
\* iterated in the order `seed`
Rebuilt(c, seed) ==
    initialize(create(c.equation, c.functions, c.structures),
               c.scale, c.delta, c.lat, c.adp, c.xyz, c.params, seed)

\* C13: the set of variable names initialize leaves in the recipe is the
\* same for every order in which the sets of the implementation are
\* iterated, the structure and the mode arguments being the same.
C13_NamesIndependentOfOrder ==
    (call.op = "initialize") =>
        \A seed \in Seeds : NamesOf(Rebuilt(call, seed)) = NamesOf(recipe)

\* an element-wise ADP construction whose variables another iteration order
\* creates in another sequence
C13_OrderVisible ==
    /\ call.op = "initialize" /\ call.adp = "e" /\ recipe.err = None
    /\ \E seed \in Seeds : Rebuilt(call, seed).names # recipe.names

\* the atom-name or element-label components of the names add_adp and
\* add_xyz compose for a call: "{label}_{quantity}" gives the label
Labels(c) ==
    LET gen == c.structures[1]
        atoms == gen.stru.atoms
        label(n) == split(n)[1]
        adp == IF c.adp = "e" THEN {bleach(atoms[i].element) : i \in DOMAIN atoms}
               ELSE IF c.adp \in {"a", "s"}
               THEN {label(n) : n \in Range(adp_names(gen, c.adp))}
               ELSE {}
        xyz == IF c.xyz \in {"a", "s"}
               THEN {label(n) : n \in Range(xyz_names(gen, c.xyz))}
               ELSE {}
    IN  adp \cup xyz

\* C14: the atom-name or element-label component of every name initialize
\* composes is alphanumeric, whatever the adp and xyz modes and the labels.
C14_LabelsAlphanumeric ==
    (call.op = "initialize") =>
        \A l \in Labels(call) : \A i \in DOMAIN l : isalnum(l[i])

\* all coordinates of an atom named "Na+" were asked for: the composed
\* name "G0_Na+_x" is handed to addVar, which refuses it
C14_ChargedNameReachesAddVar ==
    /\ call.op = "initialize" /\ call.xyz = "a" /\ call.adp = None
    /\ call.lat = None /\ call.delta = None /\ call.params = NoParams
    /\ <<"Na", "+">> \in Labels(call)
    /\ recipe.err = "ValueError"

-----------------------------------------------------------------------------
(* Functions without effect on a recipe, applied to drawn arguments *)

MaxLen == 3

\* the characters tried: a letter run, a digit, the two signs, two others
Alphabet == {"Na", "1", "+", "-", "_", " "}
Strings == UNION {[1..n -> Alphabet] : n \in 0..MaxLen}

BleachCalls == {[op |-> "bleach", s |-> s] : s \in Strings}

\* bleach(s) is called and returns
Bleach ==
    /\ call.op = "bleach" /\ ret = NoRet
    /\ ret' = [op |-> "bleach", value |-> bleach(call.s)]
    /\ UNCHANGED <<recipe, phase, pc, sched, stage, kwargs, solver, err, log, entry, call>>

\* what the docstring of bleach describes: '+' becomes 'p', '-' becomes 'n',
\* then everything that is not a letter or a digit is dropped
Bleached(s) ==
    SelectSeq([i \in DOMAIN s |-> IF s[i] = "+" THEN "p" ELSE IF s[i] = "-" THEN "n" ELSE s[i]],
              isalnum)

\* C15: bleach returns its argument with '+' replaced by 'p', '-' by 'n'
\* and every other character that is not a letter or a digit removed.
C15_BleachReplacesSigns ==
    (ret.op = "bleach") => ret.value = Bleached(call.s)

\* bleach("Na+") has returned "Na": the sign is dropped, not replaced
C15_SignDropped ==
    /\ ret.op = "bleach" /\ call.s = <<"Na", "+">> /\ ret.value = <<"Na">>

\* map_stype(mode) (modeling/fitobjs.py)
map_stype(mode) ==
    IF mode \in {"xray", "sas"} THEN [err |-> None, value |-> "X"]
    ELSE IF mode = "neutron" THEN [err |-> None, value |-> "N"]
    ELSE [err |-> "ValueError", value |-> None]

\* MyParser.parsePDFGetter(pdfgetter, meta) on a new parser: the exception
\* raised, if any, and the parser's _meta afterwards. pdfgetter.gr is the
\* pair (r, g), two rows, which parseDict accepts
parsePDFGetter(config, meta) ==
    LET meta0 == IF meta.given THEN meta.d ELSE EmptyFn
        stype == map_stype(config.mode)
        other_meta == ("stype" :> stype.value) @@ ("qmin" :> config.qmin)
                         @@ ("qmax" :> config.qmax)
    IN  IF stype.err # None THEN [err |-> stype.err, meta |-> EmptyFn]
        ELSE [err |-> None, meta |-> other_meta @@ meta0]

\* the meta arguments tried: None, and dicts with and without the keys the
\* configuration also provides
MetaArgs ==
    {[given |-> FALSE, d |-> EmptyFn]} \cup
    {[given |-> TRUE, d |-> d] :
        d \in {EmptyFn, ("qmax" :> 19), ("qdamp" :> 4), ("qmin" :> 1) @@ ("qdamp" :> 4),
               ("stype" :> "N") @@ ("qmax" :> 19)}}
PDFConfigs ==
    [mode : {"xray", "neutron", "sas", "electron"}, qmin : {0, 1}, qmax : {19, 22}]

ParseCalls ==
    {[op |-> "parsePDFGetter", config |-> c, meta |-> m] : c \in PDFConfigs, m \in MetaArgs}

\* parser.parsePDFGetter(pdfgetter, meta) is called and returns or raises
ParsePDFGetter ==
    /\ call.op = "parsePDFGetter" /\ ret = NoRet
    /\ LET p == parsePDFGetter(call.config, call.meta)
       IN  ret' = [op |-> "parsePDFGetter", err |-> p.err, meta |-> p.meta]
    /\ UNCHANGED <<recipe, phase, pc, sched, stage, kwargs, solver, err, log, entry, call>>

\* rename_args(func, prefix, first) (model.py): the first argument becomes
\* `first`, the others get the prefix
rename_args(args, prefix, first) ==
    <<first>> \o [i \in 1..(Len(args) - 1) |-> prefix \o args[i + 1]]

\* the argument names a function is registered with on each path:
\* create_con calls add_prefix(f, n), multi_phase add_suffix(cf, fname),
\* MultiPhaseModel._create_recipe rename_args(sf, "{}_".format(name), fc.xname)
argnames(path, args, name) ==
    IF path = "create" THEN add_prefix(args, name, <<"r">>)
    ELSE IF path = "multi_phase" THEN add_suffix(args, name)
    ELSE rename_args(args, name \o <<US>>, <<"r">>)

\* the signatures tried: F.sphericalCF(r, psize), F.lognormalSphericalCF(r,
\* psize, psig), and a function whose domain argument comes second
ArgLists == {SphericalCF, <<<<"r">>, <<"psize">>, <<"psig">>>>, <<<<"psize">>, <<"r">>>>}

RegisterCalls ==
    {[op |-> "register", path |-> p, args |-> a, name |-> n] :
        p \in {"create", "multi_phase", "model"}, a \in ArgLists, n \in {<<"f0">>, <<"f1">>}}

\* a function is registered and the names of its arguments are composed
Register ==
    /\ call.op = "register" /\ ret = NoRet
    /\ ret' = [op |-> "register", value |-> argnames(call.path, call.args, call.name)]
    /\ UNCHANGED <<recipe, phase, pc, sched, stage, kwargs, solver, err, log, entry, call>>

MaxCalls == 2

\* the product of two numbers given in hundredths (exact for the inputs tried)
mul(a, b) == (a * b) \div 100

\* a bound argument: the tuple (lo, hi), or the dict {"lb": lo, "ub": hi}
\* (bound_range) resp. {"lr": lo, "ur": hi} (bound_window)
BoundArg(form, lo, hi) == [form |-> form, lo |-> lo, hi |-> hi]

\* the (lower, upper) pair handed to boundRange / boundWindow, and the
\* caller's bound object after the call: under ratio the dict is written
\* in place, the tuple is replaced by a new one
scaled(value, bound, ratio) ==
    LET b2 == IF ratio THEN [bound EXCEPT !.lo = mul(value, @), !.hi = mul(value, @)]
              ELSE bound
    IN  [used |-> b2, bound |-> IF bound.form = "dict" THEN b2 ELSE bound]

\* bound_range(variable, bound, ratio): the variable's bounds afterwards
bound_range(value, bound, ratio) ==
    LET s == scaled(value, bound, ratio)
    IN  [bnd |-> <<s.used.lo, s.used.hi>>, bound |-> s.bound]

\* bound_window(variable, bound, ratio): the variable's bounds afterwards
bound_window(value, bound, ratio) ==
    LET s == scaled(value, bound, ratio)
    IN  [bnd |-> <<value - s.used.lo, value + s.used.hi>>, bound |-> s.bound]

bound_by(fn, value, bound, ratio) ==
    IF fn = "range" THEN bound_range(value, bound, ratio)
    ELSE bound_window(value, bound, ratio)

\* bound_ranges / bound_windows on one variable of value 0.5, 1.0 or 2.0
\* with the bound (0.4, 2.0) or (0.2, 0.4)
BoundCalls ==
    {[op |-> "bound", fn |-> fn, value |-> v, ratio |-> ratio,
      orig |-> BoundArg(form, b[1], b[2]), bound |-> BoundArg(form, b[1], b[2])] :
        fn \in {"range", "window"}, v \in {50, 100, 200}, ratio \in BOOLEAN,
        form \in {"tuple", "dict"}, b \in {<<40, 200>>, <<20, 40>>}}

\* bound_ranges(recipe, bounds, ratio=) or bound_windows(...) is called,
\* for the first time or again with the same bounds object
Bound ==
    /\ call.op = "bound"
    /\ IF ret = NoRet THEN TRUE ELSE ret.count < MaxCalls
    /\ LET out == bound_by(call.fn, call.value, call.bound, call.ratio)
       IN  /\ ret' = [op |-> "bound", bnd |-> out.bnd,
                      count |-> IF ret = NoRet THEN 1 ELSE ret.count + 1]
           /\ call' = [call EXCEPT !.bound = out.bound]
    /\ UNCHANGED <<recipe, phase, pc, sched, stage, kwargs, solver, err, log, entry>>

MaxPeaks == 2

\* a[lo:hi] and a[lo:] of Python, with 0-based positions
Slice(a, lo, hi) == SubSeq(a, lo + 1, IF hi > Len(a) THEN Len(a) ELSE hi)
SliceFrom(a, lo) == SubSeq(a, lo + 1, Len(a))

\* np.searchsorted(a, v, side): the number of elements before the
\* insertion point, in the array that was passed
searchsorted(a, v, side) ==
    IF side = "left" THEN Cardinality({i \in DOMAIN a : a[i] < v})
    ELSE Cardinality({i \in DOMAIN a : a[i] <= v})

\* the loop of PeakMatcher._macth_dists from peak i on: the lists ls and rs
RECURSIVE macth_loop(_, _, _, _)
macth_loop(peaks, dists, i, start) ==
    IF i > Len(peaks) THEN [ls |-> <<>>, rs |-> <<>>]
    ELSE LET l == searchsorted(SliceFrom(dists, start), peaks[i].left, "left")
             r == searchsorted(SliceFrom(dists, l), peaks[i].right, "right")
             rest == macth_loop(peaks, dists, i + 1, r)
         IN  [ls |-> <<l>> \o rest.ls, rs |-> <<r>> \o rest.rs]

\* PeakMatcher._macth_dists(peaks, dists): the two variables it adds to peaks
macth_dists(peaks, dists) ==
    LET m == macth_loop(peaks, dists, 1, 0)
    IN  [left_dist_id |-> m.ls, right_dist_id |-> m.ls]

\* get_distances(result)
get_distances(result, dists) ==
    [i \in DOMAIN result.left_dist_id |->
        Slice(dists, result.left_dist_id[i], result.right_dist_id[i])]

\* sorted distance arrays and peaks sorted by position, on a grid of r
Grid == 0..4
SortedDists ==
    {d \in UNION {[1..n -> Grid] : n \in 0..MaxLen} :
        \A i \in 1..(Len(d) - 1) : d[i] <= d[i + 1]}
PeakLists ==
    {p \in UNION {[1..n -> [left : Grid, right : Grid]] : n \in 1..MaxPeaks} :
        /\ \A i \in DOMAIN p : p[i].left <= p[i].right
        /\ \A i \in 1..(Len(p) - 1) : p[i].right <= p[i + 1].left}

MatchCalls == {[op |-> "match", peaks |-> p, dists |-> d] : p \in PeakLists, d \in SortedDists}

\* the matching step of PeakMatcher.fit, then get_distances on the result
Match ==
    /\ call.op = "match" /\ ret = NoRet
    /\ LET result == macth_dists(call.peaks, call.dists)
       IN  ret' = [op |-> "match", result |-> result,
                   distances |-> get_distances(result, call.dists)]
    /\ UNCHANGED <<recipe, phase, pc, sched, stage, kwargs, solver, err, log, entry, call>>

\* nickel as a pyobjcryst Molecule
NiMolecule == [NiStru EXCEPT !.kind = "molecule"]

\* GenConfig.is_periodic(structure)
is_periodic(structure) == structure.kind # "molecule"

\* an optional bool argument: "none" (left at None), "true" or "false"
OptBools == {"none", "true", "false"}

\* GenConfig(name, structure, periodic, debye)
GenConfig(name, structure, periodic, debye) ==
    LET p == IF periodic = "none" THEN is_periodic(structure) ELSE periodic = "true"
    IN  [name |-> name, structure |-> structure, periodic |-> p,
         debye |-> IF debye = "none" THEN ~p ELSE debye = "true"]

\* bool(structure): an object is true unless it is an empty container
truth(structure) == Len(structure.atoms) > 0

\* make_generator(genconfig): the class of the generator, and the
\* periodicity its phase is set to by setStructure(stru, periodic=...)
make_generator(genconfig) ==
    [class |-> IF genconfig.debye THEN "DebyePDFGenerator" ELSE "PDFGenerator",
     name |-> genconfig.name,
     stru |-> genconfig.structure,
     periodic |-> truth(genconfig.structure)]

GeneratorCalls ==
    {[op |-> "make_generator", structure |-> s, periodic |-> p, debye |-> d]
        : s \in {NiStru, NiDiffpy, NiMolecule}, p \in OptBools, d \in OptBools}

\* GenConfig is built from the arguments and make_generator is applied to it
MakeGenerator ==
    /\ call.op = "make_generator" /\ ret = NoRet
    /\ LET genconfig == GenConfig(<<"G0">>, call.structure, call.periodic, call.debye)
       IN  ret' = [op |-> "make_generator", genconfig |-> genconfig,
                   generator |-> make_generator(genconfig)]
    /\ UNCHANGED <<recipe, phase, pc, sched, stage, kwargs, solver, err, log, entry, call>>

FnCalls ==
    BleachCalls \cup ParseCalls \cup RegisterCalls \cup BoundCalls \cup MatchCalls
        \cup GeneratorCalls

InitFn == recipe = NoRecipe /\ phase = "none" /\ Idle /\ call \in FnCalls

NextFn == Bleach \/ ParsePDFGetter \/ Register \/ Bound \/ Match \/ MakeGenerator

SpecFn == InitFn /\ [][NextFn]_vars

-----------------------------------------------------------------------------
(* Calls on a recipe outside optimize: set_values, get_value_dct,         *)
(* get_values (modeling/setting.py) and fit (modeling/fitfuncs.py)        *)

\* a get_value_dct that pairs every name with the first value
get_value_dct_first(r) == [i \in DOMAIN getNames(r) |-> <<getNames(r)[i], getValues(r)[1]>>]

\* get_value_dct(recipe): dict(zip(recipe.getNames(), recipe.getValues())),
\* as the sequence of its items
get_value_dct(r) == [i \in DOMAIN getNames(r) |-> <<getNames(r)[i], getValues(r)[i]>>]

\* dct.get(name): the value, or None
Some(v) == [found |-> TRUE, v |-> v]
Nothing == [found |-> FALSE, v |-> 0]
dict_get(items, name) ==
    IF \E i \in DOMAIN items : items[i][1] = name
    THEN Some(items[CHOOSE i \in DOMAIN items : items[i][1] = name][2])
    ELSE Nothing

\* get_values(recipe, names): list(map(dct.get, names))
get_values(r, names) == [i \in DOMAIN names |-> dict_get(get_value_dct(r), names[i])]

\* the names asked for: ADP variables, fixed variables, a name the recipe
\* does not have
ProbeNames(r) == SetNames(r) \cup r.fixed
NameLists(r) == UNION {[1..n -> ProbeNames(r)] : n \in 1..2}

\* the keywords of a direct call of fit
FitKwargs == {EmptyFn, ("max_nfev" :> 1), ("max_fev" :> 1)}

Resting == pc \in {"idle", "done"} /\ phase \in {"initialized", "valued"} /\ ret = NoRet

\* get_values(recipe, names) is called and returns
GetValues ==
    /\ Resting
    /\ \E names \in NameLists(recipe) :
          ret' = [op |-> "get_values", names |-> names, value |-> get_values(recipe, names)]
    /\ UNCHANGED <<recipe, phase, pc, sched, stage, kwargs, solver, err, log, entry, call>>

\* set_values(recipe, get_value_dct(recipe)) is called and returns
RoundTrip ==
    /\ Resting
    /\ entry' = recipe
    /\ recipe' = set_values([recipe EXCEPT !.err = None], get_value_dct(recipe), FALSE)
    /\ ret' = [op |-> "round_trip"]
    /\ UNCHANGED <<phase, pc, sched, stage, kwargs, solver, err, log, call>>

\* fit(recipe, **kwargs) is called on its own, up to the call of
\* least_squares; SolveEval, SolveReturn and SolveRaise carry on
FitCall ==
    /\ pc = "idle" /\ phase \in {"initialized", "valued"} /\ ret = NoRet
    /\ \E kw \in FitKwargs :
          /\ kwargs' = kw
          /\ solver' = fit_start(recipe, kw)
    /\ entry' = recipe
    /\ log' = Append(log, <<"fit", 0, {}>>)
    /\ pc' = "solve"
    /\ UNCHANGED <<recipe, phase, sched, stage, err, call, ret>>

\* an order of ModelBase.set_order: strings and iterables of orders
OStr(s) == [kind |-> "str", s |-> s]
OList(items) == [kind |-> "iter", items |-> items]

\* attributes every recipe object has besides its variables (methods of
\* FitRecipe)
RecipeAttrs == {<<"residual">>, <<"fix">>}

\* hasattr(self._recipe, order)
hasattr(r, s) == s \in NamesOf(r) \cup RecipeAttrs

\* ModelBase._check_order(order): the exception raised, or None
RECURSIVE check_order(_, _)
check_order(r, order) ==
    IF order.kind = "str"
    THEN IF ~hasattr(r, order.s) /\ order.s \notin alltags(r) THEN "ValueError" ELSE None
    ELSE IF \E i \in DOMAIN order.items : check_order(r, order.items[i]) # None
    THEN "ValueError"
    ELSE None

\* the orders tried: tags and variable names, flat and nested, an unknown
\* string at the top and two levels down, a method name, nothing
Orders(r) ==
    {<<>>,
     <<OStr(ALL)>>,
     <<OList(<<OStr(ALL), OList(<<OStr(r.names[1])>>)>>)>>,
     <<OStr(<<"nope">>)>>,
     <<OStr(ALL), OList(<<OList(<<OStr(<<"nope">>)>>)>>)>>,
     <<OList(<<OStr(<<"residual">>)>>)>>}

\* model.set_order(*order) on ModelBase(recipe), a first or a later time;
\* model._order starts as []
SetOrder ==
    /\ pc = "idle" /\ phase \in {"initialized", "valued"}
    /\ IF ret = NoRet THEN TRUE ELSE ret.op = "set_order" /\ ret.count < MaxCalls
    /\ \E order \in Orders(recipe) :
          LET prev == IF ret = NoRet THEN <<>> ELSE ret.order
              exc == check_order(recipe, OList(order))
          IN  ret' = [op |-> "set_order", arg |-> order, prev |-> prev, exc |-> exc,
                      order |-> IF exc = None THEN order ELSE prev,
                      count |-> IF ret = NoRet THEN 1 ELSE ret.count + 1]
    /\ UNCHANGED <<recipe, phase, pc, sched, stage, kwargs, solver, err, log, entry, call>>

NextFit ==
    \/ SetValues \/ GetValues \/ RoundTrip \/ SetOrder
    \/ FitCall \/ SolveEval \/ SolveReturn \/ SolveRaise

SpecFit == Init /\ [][NextFit]_vars

\* C16: writing back what get_value_dct returns leaves the names and the
\* order of the free variables and their values as they were.
C16_RoundTripKeepsFreeValues ==
    (ret.op = "round_trip") =>
        /\ recipe.err = None
        /\ getNames(recipe) = getNames(entry)
        /\ getValues(recipe) = getValues(entry)

\* the round trip was made on a refined recipe with at least two free
\* variables of different values
C16_RoundTripAfterFit ==
    /\ ret.op = "round_trip" /\ pc = "done"
    /\ \E i, j \in DOMAIN getValues(entry) : getValues(entry)[i] # getValues(entry)[j]

\* C17: get_values returns one entry per name asked for, in the order
\* given; the entry is None exactly when the recipe has no variable of the
\* name, and otherwise the variable's value, be it free or fixed.
C17_ValueOfEveryVariable ==
    (ret.op = "get_values") =>
        /\ Len(ret.value) = Len(ret.names)
        /\ \A i \in DOMAIN ret.names :
              ret.value[i] = IF ret.names[i] \in NamesOf(recipe)
                             THEN Some(recipe.val[ret.names[i]])
                             ELSE Nothing

\* a fixed variable and a free one were asked for: None came back for the
\* fixed one
C17_FixedVariableGivesNone ==
    /\ ret.op = "get_values" /\ Len(ret.names) = 2
    /\ ret.names[1] \in recipe.fixed /\ ret.value[1] = Nothing
    /\ ret.names[2] \in FreeSet(recipe) /\ ret.value[2] = Some(recipe.val[ret.names[2]])

-----------------------------------------------------------------------------
(* The default values and bounds of multi_phase (modeling/main.py) *)

\* the variables of r take the entries of values and of bounds
Supplied(r, values, bounds) ==
    \A n \in NamesOf(r) :
       /\ n \in DOMAIN values => r.val[n] = values[n]
       /\ n \in DOMAIN bounds => r.bnd[n] = bounds[n]

\* C18: every variable of the recipe multi_phase returns that is named in
\* `values` starts at the value given there, and every one named in
\* `bounds` has the bounds given there, with cf_params and sg_params None
\* or given.
C18_ValuesAndBoundsApplied ==
    (call.op = "multi_phase" /\ recipe.err = None) =>
        Supplied(recipe, call.values, call.bounds)

\* cf_params names 'psize_f0' and values holds an entry for it: the
\* variable is there and starts at 0, not at the entry
C18_ListedParamKeepsDefault ==
    /\ call.op = "multi_phase" /\ recipe.err = None
    /\ call.cf_params = ListParams(<<<<"psize", US, "f0">>>>)
    /\ <<"psize", US, "f0">> \in DOMAIN call.values
    /\ <<"psize", US, "f0">> \in NamesOf(recipe)
    /\ recipe.val[<<"psize", US, "f0">>] = 0

-----------------------------------------------------------------------------
(* The evaluation limit of fit (modeling/fitfuncs.py) *)

\* C19: in a direct call of fit the solver's limit on residual evaluations
\* is the caller's max_nfev keyword, and no limit when the keyword is not
\* given.
C19_MaxNfevReachesSolver ==
    (Len(log) > 0 /\ log[1][1] = "fit") =>
        solver.max_nfev = (IF "max_nfev" \in DOMAIN kwargs THEN kwargs["max_nfev"] ELSE NoLimit)

\* fit was called with max_nfev=1 and the solver has evaluated the residual
\* three times: at the start point and at two trial points
C19_LimitExceeded ==
    /\ Len(log) > 0 /\ log[1][1] = "fit"
    /\ "max_nfev" \in DOMAIN kwargs /\ kwargs["max_nfev"] = 1
    /\ solver.nev + 1 = 3

-----------------------------------------------------------------------------
(* The metadata of MyParser.parsePDFGetter (modeling/fitobjs.py) *)

\* C20: after parsePDFGetter has returned, every key of the meta the caller
\* gave maps to the caller's value in the parser's metadata.
C20_CallerMetaKept ==
    (ret.op = "parsePDFGetter" /\ ret.err = None) =>
        \A k \in DOMAIN call.meta.d : ret.meta[k] = call.meta.d[k]

\* the caller gave qmax = 19 and the configuration holds qmax = 22: the
\* parser's metadata says 22
C20_ConfigurationWins ==
    /\ ret.op = "parsePDFGetter" /\ ret.err = None
    /\ "qmax" \in DOMAIN call.meta.d /\ call.meta.d["qmax"] = 19
    /\ call.config.qmax = 22 /\ ret.meta["qmax"] = 22

-----------------------------------------------------------------------------
(* The argument names of registered functions *)

\* C21: on every path that registers a function under a name, each
\* argument other than the domain symbol is exposed as "{name}_{argument}"
\* and the domain argument keeps the domain name.
C21_ArgumentsPrefixed ==
    (ret.op = "register") =>
        ret.value = [i \in DOMAIN call.args |->
                        IF call.args[i] = <<"r">> THEN <<"r">>
                        ELSE fmt2(call.name, call.args[i])]

\* multi_phase has registered sphericalCF as f0: psize is exposed as
\* "psize_f0"
C21_SuffixOnMultiPhasePath ==
    /\ ret.op = "register" /\ call.path = "multi_phase"
    /\ call.args = SphericalCF /\ call.name = <<"f0">>
    /\ ret.value = <<<<"r">>, <<"psize", US, "f0">>>>

-----------------------------------------------------------------------------
(* The tags of the contribution-level variables *)

\* the variables of r named "{function name}_{argument}" for a function
FunVars(r, f) ==
    {fmt2(f.name, f.args[i]) : i \in {j \in DOMAIN f.args : f.args[j] # r.xname}}
        \cap NamesOf(r)

\* C22: after initialize has returned, the variables tagged with the name
\* of a registered function are exactly the variables named
\* "{function name}_{argument}" of that function.
C22_FunctionNameTags ==
    (call.op = "initialize" /\ recipe.err = None) =>
        \A i \in DOMAIN call.functions :
           LET f == call.functions[i]
           IN  TaggedBy(recipe, {f.name}) = FunVars(recipe, f)

\* the function is registered as "sp_cf": its variable "sp_cf_psize" is
\* there and is tagged "sp"
C22_TagStopsAtUnderscore ==
    /\ call.op = "initialize" /\ recipe.err = None
    /\ <<"sp", US, "cf", US, "psize">> \in NamesOf(recipe)
    /\ <<"sp">> \in recipe.tags[<<"sp", US, "cf", US, "psize">>]
    /\ <<"sp", US, "cf">> \notin recipe.tags[<<"sp", US, "cf", US, "psize">>]

-----------------------------------------------------------------------------
(* Bounds given as a dict or as a tuple (modeling/setting.py) *)

\* C23: after every call of bound_ranges or bound_windows, the first or a
\* repeated one with the same bounds argument, the variable's bounds are
\* those the corresponding tuple gives.
C23_DictSameAsTuple ==
    (ret.op = "bound") =>
        ret.bnd = bound_by(call.fn, call.value,
                           [call.orig EXCEPT !.form = "tuple"], call.ratio).bnd

\* bound_ranges was called twice with the same dict {"lb": 0.4, "ub": 2.0}
\* and ratio=True on a variable of value 0.5: the bounds are (0.1, 0.5),
\* the tuple gives (0.2, 1.0)
C23_DictScaledTwice ==
    /\ ret.op = "bound" /\ ret.count = 2
    /\ call.fn = "range" /\ call.ratio /\ call.value = 50
    /\ call.orig = BoundArg("dict", 40, 200)
    /\ ret.bnd = <<10, 50>>

-----------------------------------------------------------------------------
(* The order of ModelBase (model.py) *)

\* the strings of an order, at any depth
RECURSIVE StringsOf(_)
StringsOf(order) ==
    IF order.kind = "str" THEN {order.s}
    ELSE UNION {StringsOf(order.items[i]) : i \in DOMAIN order.items}

\* C24: set_order stores the order exactly when every string in it, at any
\* depth, is a tag or a variable name of the recipe; otherwise it raises
\* ValueError and the stored order is the previous one.
C24_OrderChecked ==
    (ret.op = "set_order") =>
        IF StringsOf(OList(ret.arg)) \subseteq NamesOf(recipe) \cup alltags(recipe)
        THEN ret.exc = None /\ ret.order = ret.arg
        ELSE ret.exc = "ValueError" /\ ret.order = ret.prev

\* the order [["residual"]] was accepted and stored: "residual" is a method
\* of the recipe, neither a tag nor a variable
C24_MethodNameAccepted ==
    /\ ret.op = "set_order" /\ ret.count = 2
    /\ ret.arg = <<OList(<<OStr(<<"residual">>)>>)>>
    /\ ret.prev # ret.arg
    /\ ret.exc = None /\ ret.order = ret.arg

-----------------------------------------------------------------------------
(* Peaks and distances (peakmatcher.py) *)

\* C25: for sorted distances and peaks sorted by position, the index range
\* [left_dist_id[i], right_dist_id[i]) of peak i holds exactly the
\* distances d with left_i <= d <= right_i, and get_distances returns them.
C25_DistancesInsidePeak ==
    (ret.op = "match") =>
        \A i \in DOMAIN call.peaks :
           ret.distances[i] =
              SelectSeq(call.dists,
                        LAMBDA d : call.peaks[i].left <= d /\ d <= call.peaks[i].right)

\* one peak [1, 3] and the distances 2, 2: get_distances returns no
\* distance for the peak
C25_NoDistanceReturned ==
    /\ ret.op = "match"
    /\ call.peaks = <<[left |-> 1, right |-> 3]>> /\ call.dists = <<2, 2>>
    /\ ret.result.left_dist_id = ret.result.right_dist_id
    /\ ret.distances = <<<<>>>>

-----------------------------------------------------------------------------
(* Two recipes built by separate create calls.  create_con hands the        *)
(* structure object of the caller to GenConfig and make_generator hands it  *)
(* to generator.setStructure: no copy is made, and the variables added for  *)
(* structure parameters are proxies that read and write that object.        *)

\* the structure object each of the two create calls is given: object 1 for
\* the first, object 1 again or a second object of equal content for the other
ObjectIds == {1, 2}
PairModes == {None, "s", "a"}
PairCalls ==
    {[op |-> "pair", structures |-> sd, obj |-> <<1, o>>, lat |-> lat, adp |-> adp]
        : sd \in StructureDicts, o \in ObjectIds, lat \in PairModes, adp \in {None, "s"}}

\* whether a variable is a proxy of a parameter of the structure object
\* (lattice or atom), and not of the generator or of the recipe
IsStruPar(r, key) ==
    /\ key[1] \in {r.gens[g].name : g \in DOMAIN r.gens}
    /\ key[2] >= 0 \/ key[3][1] \in Range(LatticeNames)

\* variable.setValue(value) on recipe k of the pair: the value goes to the
\* parameter the variable is a proxy of; a recipe whose generator holds the
\* same structure object reads the same parameter
setValue(pair, obj, k, name, value) ==
    LET key == pair[k].par[name]
        seen(j, m) == /\ obj[j] = obj[k]
                      /\ IsStruPar(pair[k], key) /\ IsStruPar(pair[j], pair[j].par[m])
                      /\ pair[j].par[m] = key
    IN  [j \in DOMAIN pair |->
            [pair[j] EXCEPT !.val = [m \in DOMAIN @ |->
                IF (j = k /\ m = name) \/ seen(j, m) THEN value ELSE @[m]]]]

\* create and initialize, called once for each of the two recipes
PairCreate ==
    /\ call.op = "pair" /\ ret = NoRet
    /\ LET r == initialize(create(<<<<"G0">>>>, <<>>, call.structures),
                           TRUE, None, call.lat, call.adp, None, NoParams, 0)
       IN  ret' = [op |-> "pair", act |-> "create", k |-> 0, name |-> <<>>,
                   r |-> <<r, r>>, prev |-> <<r, r>>, count |-> 0]
    /\ UNCHANGED <<recipe, phase, pc, sched, stage, kwargs, solver, err, log, entry, call>>

\* set_values(recipe_k, {name: value}) on one recipe of the pair
PairSet ==
    /\ call.op = "pair" /\ ret # NoRet
    /\ IF ret = NoRet THEN FALSE ELSE ret.count < MaxCalls
    /\ \E k \in {1, 2}, v \in NewValues :
         \E name \in NamesOf(ret.r[k]) :
            ret' = [ret EXCEPT !.act = "set", !.k = k, !.name = name, !.prev = ret.r,
                               !.r = setValue(ret.r, call.obj, k, name, v),
                               !.count = @ + 1]
    /\ UNCHANGED <<recipe, phase, pc, sched, stage, kwargs, solver, err, log, entry, call>>

\* recipe_k.fix(name) or recipe_k.free(name) on one recipe of the pair
PairFix ==
    /\ call.op = "pair" /\ ret # NoRet
    /\ IF ret = NoRet THEN FALSE ELSE ret.count < MaxCalls
    /\ \E k \in {1, 2}, on \in BOOLEAN :
         \E name \in NamesOf(ret.r[k]) :
            ret' = [ret EXCEPT !.act = "fix", !.k = k, !.name = name, !.prev = ret.r,
                               !.r[k] = IF on THEN fix(@, {name}) ELSE free(@, {name}),
                               !.count = @ + 1]
    /\ UNCHANGED <<recipe, phase, pc, sched, stage, kwargs, solver, err, log, entry, call>>

InitPair == recipe = NoRecipe /\ phase = "none" /\ Idle /\ call \in PairCalls

NextPair == PairCreate \/ PairSet \/ PairFix

SpecPair == InitPair /\ [][NextPair]_vars

\* C26: two recipes built by separate create calls share no mutable state,
\* whatever arguments they were built from: setting a variable of one, or
\* fixing or freeing it, changes no value and no flag seen through the other.
C26_NoSharedState ==
    (ret.op = "pair" /\ ret.act \in {"set", "fix"}) =>
        ret.r[3 - ret.k] = ret.prev[3 - ret.k]

\* both recipes were created from one structure object; G0_a was set in the
\* first and the second recipe shows the new value
C26_ValueSeenThroughOther ==
    /\ ret.op = "pair" /\ ret.act = "set" /\ ret.k = 1
    /\ call.obj = <<1, 1>>
    /\ ret.name = <<"G0", US, "a">>
    /\ ret.prev[2].val[ret.name] # ret.r[2].val[ret.name]
    /\ ret.r[2].val[ret.name] = ret.r[1].val[ret.name]

-----------------------------------------------------------------------------
(* The free set after a staged refinement *)

\* every tag listed in the schedule
ScheduledTags == UNION {EntryTags(sched[i]) : i \in DOMAIN sched}

\* C27: when optimize completes without error, the free variables are
\* exactly the variables carrying a scheduled tag; a variable free before
\* the call without a scheduled tag is fixed afterwards; with an empty
\* schedule every variable ends fixed and the solver is never called.
C27_FreeExactlyScheduled ==
    (pc = "done") =>
        /\ FreeSet(recipe) = TaggedBy(recipe, ScheduledTags)
        /\ (FreeSet(entry) \ TaggedBy(recipe, ScheduledTags)) \subseteq recipe.fixed
        /\ (sched = <<>>) =>
              /\ FreeSet(recipe) = {}
              /\ solver = NoSolver
              /\ \A i \in DOMAIN log : log[i][1] # "fit"

\* a two-stage schedule completed: some variable is free, and a variable
\* that was free at the call and has no scheduled tag is now fixed
C27_UnscheduledNowFixed ==
    /\ pc = "done" /\ Len(sched) = 2
    /\ FreeSet(recipe) # {}
    /\ \E n \in FreeSet(entry) : n \notin TaggedBy(recipe, ScheduledTags) /\ n \in recipe.fixed

-----------------------------------------------------------------------------
(* The parameter behind an ADP variable *)

\* C28: under adp='s', every variable add_adp adds under the name
\* '{generator}_{atom}_{symbol}' is bound to the symmetry-independent ADP
\* parameter with that symbol (Biso, B11, B22 or B33) of that atom, also
\* when the list of independent parameters holds off-diagonal terms.
C28_AdpBoundToNamedParameter ==
    (call.op = "initialize" /\ call.adp = "s") =>
        \A n \in NamesOf(recipe) :
           (<<"adp">> \in recipe.tags[n]) =>
              LET key == recipe.par[n]
                  atoms == call.structures[1].stru.atoms
              IN  /\ key[2] >= 0 /\ key[3][1] \in AdpSymbols
                  /\ n = fmt2(key[1], fmt2(atoms[key[2] + 1].name, key[3]))

\* the oxide yields B11_0, B12_0, B33_0, Biso_1, Biso_2: the variable
\* G0_Zr0_B33 is bound to the off-diagonal parameter B12 of the atom
C28_B33BoundToB12 ==
    /\ call.op = "initialize" /\ call.adp = "s" /\ recipe.err = None
    /\ call.structures[1].stru = OxStru
    /\ <<"G0", US, "Zr", "0", US, "B33">> \in NamesOf(recipe)
    /\ recipe.par[<<"G0", US, "Zr", "0", US, "B33">>] = ParKey(<<"G0">>, 0, <<"B12">>)

-----------------------------------------------------------------------------
(* A failed initialize *)

\* the modes initialize accepts for delta, lat, adp and xyz (None and the
\* empty string skip the step)
ValidMode(field, m) ==
    \/ Falsy(m)
    \/ field = "delta" /\ m \in {"1", "2"}
    \/ field = "lat" /\ m \in {"s", "a"}
    \/ field = "adp" /\ m \in {"a", "e", "s"}
    \/ field = "xyz" /\ m \in {"s", "a"}

\* the call raises because of a mode argument: it raises, and the same
\* call with the invalid modes left out does not
RaisesForMode(c) ==
    LET blank == create(c.equation, c.functions, c.structures)
        ok(field) == IF ValidMode(field, c[field]) THEN c[field] ELSE None
    IN  /\ \E field \in {"delta", "lat", "adp", "xyz"} : ~ValidMode(field, c[field])
        /\ initialize(blank, c.scale, c.delta, c.lat, c.adp, c.xyz, c.params, c.seed).err # None
        /\ initialize(blank, c.scale, ok("delta"), ok("lat"), ok("adp"), ok("xyz"),
                      c.params, c.seed).err = None

\* C29: initialize is all-or-nothing: when it raises because a mode argument
\* is invalid, the recipe has the variables, tags, constraints, values and
\* bounds it had before the call.
C29_FailedInitializeLeavesRecipe ==
    (call.op = "initialize" /\ RaisesForMode(call)) =>
        [recipe EXCEPT !.err = None] = create(call.equation, call.functions, call.structures)

\* initialize(recipe, scale=True, delta='haha') raised ValueError, and the
\* recipe that had no variable now has G0_scale
C29_ScaleAddedBeforeRaise ==
    /\ call.op = "initialize" /\ RaisesForMode(call)
    /\ call.scale /\ call.delta = "haha" /\ call.params = NoParams
    /\ recipe.err = "ValueError"
    /\ create(call.equation, call.functions, call.structures).names = <<>>
    /\ recipe.names = <<<<"G0", US, "scale">>>>

-----------------------------------------------------------------------------
(* The generator make_generator builds *)

\* C30: make_generator builds the generator with periodicity equal to
\* GenConfig.periodic (the given value, or by default False for a Molecule
\* and True otherwise) and with the Debye class exactly when GenConfig.debye.
C30_GeneratorFollowsConfig ==
    (ret.op = "make_generator") =>
        /\ ret.genconfig.periodic =
              (IF call.periodic = "none" THEN call.structure.kind # "molecule"
               ELSE call.periodic = "true")
        /\ ret.generator.periodic = ret.genconfig.periodic
        /\ (ret.generator.class = "DebyePDFGenerator") = ret.genconfig.debye

\* GenConfig('G0', crystal, periodic=False): the configuration says not
\* periodic, the generator's phase is set periodic
C30_PeriodicDespiteConfig ==
    /\ ret.op = "make_generator"
    /\ call.structure = NiStru /\ call.periodic = "false"
    /\ ~ret.genconfig.periodic /\ ret.genconfig.debye
    /\ ret.generator.class = "DebyePDFGenerator"
    /\ ret.generator.periodic

====
